---------------------------- MODULE Spec2Model ----------------------------
(***************************************************************************)
(* The trading orchestration engine of Alpha_Quant_Pro (engine_core.py,    *)
(* TradingEngine) with its TradeStore (database_manager.py,                *)
(* DatabaseManager) and the MetaTrader5 broker session it drives.          *)
(*                                                                         *)
(* Prices are integers in points (symbol_info.point = 1), volumes are      *)
(* integers in hundredths of a lot, a stop-loss of 0 means "no stop".      *)
(***************************************************************************)
EXTENDS Integers, FiniteSets, Sequences, TLC

\* ------------------------------------------------------------------ bounds
MaxTickets == 2
NumSymbols == 2
MaxPrice == 4
MaxDistance == 2
MaxMoney == 2
MaxRuns == 2
MaxReloads == 1
MaxOpen == 1

Tickets == 1..MaxTickets
Symbols == 1..NumSymbols
Prices == 1..MaxPrice
Stops == 0..MaxPrice
Distances == 1..MaxDistance

\* ------------------------------------------------------------------- state
VARIABLES
    positions,                  \* broker: ticket -> [open, type, sl, volume]
    tick,                       \* broker: symbol -> [bid, ask]
    pcDeals,                    \* broker history: ticket -> number of "Partial Close" deals
    connected,                  \* broker: mt5.terminal_info() is truthy
    db,                         \* TradeStore: ticket -> [status, sl, partial_close_done]
    running,                    \* self.running
    pc,                         \* position of run_async
    symIdx,                     \* index of the symbol being processed
    partially_closed_tickets,   \* self.partially_closed_tickets
    queue,                      \* positions snapshot still to visit in check_partial_close
    cfg,                        \* the engine's configuration fields
    sent,                       \* stop modifications sent by the last handler
    risk,                       \* what the check_risk_limits of this cycle saw and did
    recon,                      \* what the _reconcile_state runs in a row did
    conc,                       \* the broker lock and the broker calls in flight
    reload,                     \* position of an update_config call of another thread
    obs                         \* what this run and this cycle of run_async did so far

vars == <<positions, tick, pcDeals, connected, db, running, pc, symIdx,
          partially_closed_tickets, queue, cfg, sent, risk, recon, conc,
          reload, obs>>

brokerVars == <<positions, tick, pcDeals, connected>>

\* ------------------------------------------------------- threads and lock
\* the thread of run_async with its executor worker, and the GUI thread
Threads == {"engine", "gui"}

\* the engine methods run_async hands to its executor, one at a time
EngineCalls ==
    {"get_daily_pnl", "update_trailing_stops", "check_partial_close",
     "get_history", "get_position_info", "check_spread", "execute_trade",
     "close_all_positions", "get_open_positions", "_modify_position_sl",
     "get_trade_history"}

\* the engine methods the GUI thread calls on app.engine
GuiCalls ==
    {"close_position", "close_all_positions", "get_open_positions",
     "get_analytics_sync"}

ThreadCalls(th) == IF th = "engine" THEN EngineCalls ELSE GuiCalls

\* the methods whose broker calls sit inside "with self.mt5_lock:"
UsesLock(method) ==
    method \in {"get_history", "get_open_positions", "execute_trade",
                "update_trailing_stops", "check_partial_close",
                "close_all_positions"}

\* the engine methods a method calls while it runs (for the locked methods:
\* inside "with self.mt5_lock:")
CallsRelocking(method) ==
    IF method = "update_trailing_stops" THEN {"_modify_position_sl", "get_open_positions"}
    ELSE IF method = "check_partial_close" THEN {"_modify_position_sl"}
    ELSE {}

Calls(method) ==
    IF method \in {"update_trailing_stops", "check_partial_close"}
    THEN {"_modify_position_sl"}
    ELSE {}

\* the methods that call db.save_trade, db.update_trade or db.close_trade,
\* which run inside "with self.lock:" of DatabaseManager
WritesStore(method) ==
    method \in {"execute_trade", "_modify_position_sl", "check_partial_close",
                "close_all_positions", "close_position"}

\* the methods that call _send_formatted_alert
Alerts(method) ==
    method \in {"execute_trade", "_modify_position_sl", "check_spread",
                "close_position"}

\* both locks are free, no thread is inside an engine method, a broker call,
\* a TradeStore call or a notifier send, and no send runs in the background
Idle ==
    [mt5_lock |-> "free", db_lock |-> "free",
     call |-> [th \in Threads |-> "idle"],
     inner |-> [th \in Threads |-> "none"],
     wait |-> [th \in Threads |-> "none"],
     inBroker |-> {}, sending |-> {}, background |-> FALSE]

\* --------------------------------------------------------- broker positions
\* pos.type
PosType(t) == positions[t].type

\* pos.symbol
PosSymbol(t) == ((t - 1) % NumSymbols) + 1

\* pos.price_open
PriceOpen(t) == IF PosType(t) = "BUY" THEN 2 ELSE MaxPrice - 1

NoPosition == [open |-> FALSE, type |-> "BUY", sl |-> 0, volume |-> 0]

\* a position as the broker holds it when it has just been opened
InitialPositions ==
    {NoPosition} \cup [open : {TRUE}, type : {"BUY", "SELL"}, sl : {0}, volume : {2}]

\* mt5.positions_get(symbol=symbol), as the ascending list of its tickets
RECURSIVE TicketSeq(_)
TicketSeq(S) ==
    IF S = {} THEN <<>>
    ELSE LET m == CHOOSE x \in S : \A y \in S : x <= y
         IN <<m>> \o TicketSeq(S \ {m})

OpenTickets == {t \in Tickets : positions[t].open}

positions_get(symbol) == {t \in OpenTickets : PosSymbol(t) = symbol}

TickValues == {tk \in [bid : Prices, ask : Prices] : tk.ask \in {tk.bid, tk.bid + 1}}

\* profit_points of update_trailing_stops / check_partial_close (point = 1)
ProfitPoints(t) ==
    IF PosType(t) = "BUY" THEN tick[PosSymbol(t)].bid - PriceOpen(t)
    ELSE PriceOpen(t) - tick[PosSymbol(t)].ask

\* ---------------------------------------------------------------- TradeStore
\* the profit column holds "0.0" (its DEFAULT, and the literal both callers of
\* close_trade in the loop pass) or "realised", a value read from the broker
NoRow == [status |-> "NONE", sl |-> 0, partial_close_done |-> FALSE, profit |-> "0.0"]

\* DatabaseManager.save_trade: INSERT OR REPLACE of an OPEN row; extra_data is
\* rebuilt from the saved dict, which carries no partial_close_done key.
save_trade(d, t, sl) ==
    [d EXCEPT ![t] = [status |-> "OPEN", sl |-> sl, partial_close_done |-> FALSE,
                      profit |-> "0.0"]]

\* DatabaseManager.update_trade(ticket, {'sl': sl}): UPDATE ... WHERE ticket = ?
update_trade_sl(d, t, sl) ==
    IF d[t].status = "NONE" THEN d ELSE [d EXCEPT ![t].sl = sl]

\* DatabaseManager.update_trade(ticket, {'sl', 'partial_close_done', 'volume'})
update_trade_partial(d, t, sl) ==
    IF d[t].status = "NONE" THEN d
    ELSE [d EXCEPT ![t].sl = sl, ![t].partial_close_done = TRUE]

\* DatabaseManager.close_trade(ticket, close_price, profit): UPDATE ... SET
\* status = 'CLOSED', profit = ? WHERE ticket = ?
close_trade_profit(d, t, profit) ==
    IF d[t].status = "NONE" THEN d
    ELSE [d EXCEPT ![t].status = "CLOSED", ![t].profit = profit]

\* close_trade(pos.ticket, price, 0.0) of close_all_positions and
\* close_trade(ticket, 0.0, 0.0) of _reconcile_state
close_trade(d, t) == close_trade_profit(d, t, "0.0")

\* DatabaseManager.get_active_trades: the tickets of the rows flagged OPEN
get_active_trades == {t \in Tickets : db[t].status = "OPEN"}


\* ------------------------------------------------------ stop-loss changes
Improves(type, new_sl, old_sl) ==
    IF type = "BUY" THEN new_sl > old_sl ELSE new_sl < old_sl

\* update_trailing_stops: new_sl = current_price -/+ trailing_distance * point
TrailingCandidate(t) ==
    IF PosType(t) = "BUY" THEN tick[PosSymbol(t)].bid - cfg.trailing_distance
    ELSE tick[PosSymbol(t)].ask + cfg.trailing_distance

\* update_trailing_stops: "if pos.sl == 0 or new_sl > pos.sl" (BUY),
\* "if pos.sl == 0 or new_sl < pos.sl" (SELL)
TrailingRatchetLoose(t, new_sl) ==
    positions[t].sl = 0 \/ new_sl = positions[t].sl
        \/ Improves(PosType(t), new_sl, positions[t].sl)

TrailingRatchet(t, new_sl) ==
    positions[t].sl = 0 \/ Improves(PosType(t), new_sl, positions[t].sl)

\* the positions of `symbol` update_trailing_stops sends a modification for
TrailingWants(symbol) ==
    {t \in positions_get(symbol) :
        /\ ProfitPoints(t) >= cfg.trailing_distance
        /\ TrailingRatchet(t, TrailingCandidate(t))}

\* run_async, HOLD branch: should_update
HoldRatchetLoose(t, new_sl) ==
    positions[t].sl = 0 \/ new_sl = positions[t].sl
        \/ Improves(PosType(t), new_sl, positions[t].sl)

HoldRatchet(t, new_sl) ==
    positions[t].sl = 0 \/ Improves(PosType(t), new_sl, positions[t].sl)

\* _modify_position_sl on the broker: the position must still exist and the
\* broker must answer TRADE_RETCODE_DONE (ok)
ModifyBroker(P, t, new_sl, ok) ==
    IF P[t].open /\ ok THEN [P EXCEPT ![t].sl = new_sl] ELSE P

\* _modify_position_sl in TradeStore: db.update_trade(ticket, {'sl': new_sl})
\* after a successful broker modification only
ModifyStore(d, P, t, new_sl, ok) ==
    IF P[t].open /\ ok THEN update_trade_sl(d, t, new_sl) ELSE d

ModRecord(t, new_sl, by) ==
    [ticket |-> t, old |-> positions[t].sl, new |-> new_sl, by |-> by]

\* the broker's answers (TRADE_RETCODE_DONE or not) to the requests about W
Answers(W) == {ok \in [Tickets -> BOOLEAN] : \A t \in Tickets \ W : ok[t]}

\* ------------------------------------------------------------- run_async
CurrentSymbol == symIdx

\* the end of one symbol's body of "for symbol in self.symbols"
NextSymbolRepeat ==
    /\ symIdx' = symIdx
    /\ pc' = "symbol"

NextSymbol ==
    IF symIdx < NumSymbols
    THEN /\ symIdx' = symIdx + 1
         /\ pc' = "symbol"
    ELSE /\ symIdx' = 1
         /\ pc' = "sleep"

\* close_all_positions has sent no order for any ticket
NoCalls == [t \in Tickets |-> 0]

\* account_info() answered None (or was not asked)
NoAccount == -1

\* check_risk_limits has not run in this cycle
NoRisk == [verdict |-> "NONE", account |-> NoAccount, pnl |-> 0, open |-> {},
           calls |-> NoCalls, alerts |-> 0]

\* update_config is not under way
NoReload == [at |-> 0, old |-> cfg, new |-> cfg, calls |-> 0, bad |-> 0,
             result |-> "none"]

\* mt5.account_info() answered None
NoAccountInfo == [ok |-> FALSE, balance |-> 0, equity |-> 0]

\* neither check_spread nor execute_trade has run in this step
NoEntry == [checked |-> FALSE, data |-> FALSE, spread |-> 0, result |-> FALSE,
            sized |-> FALSE, account |-> NoAccountInfo, dist |-> 0,
            raises |-> FALSE, outcome |-> "NONE", ticket |-> 0,
            pos_dir |-> 0, closes |-> {}, closeRaised |-> FALSE]

\* no _execute_partial_close is under way: no partial-close order answered,
\* no break-even move answered, no alert sent, nothing marked
NoPartial == [ticket |-> 0, close |-> "none", be |-> "none", alerts |-> {},
              marked |-> FALSE]

\* the agent's output of a bar: signal, output.sl and output.tp (0 for None)
NoSignal == [signal |-> "NONE", sl |-> 0, tp |-> 0]

\* nothing observed yet: no configuration field read, no step taken, no
\* exception caught, no stop requested, no order sent, no trade saved
NoObs == [seen |-> {}, steps |-> <<>>, raised |-> FALSE, stop |-> FALSE,
          startup |-> "none", signal |-> NoSignal, flat |-> FALSE,
          admitted |-> FALSE, orders |-> <<>>, saves |-> <<>>, entry |-> NoEntry,
          raisedAt |-> 0, raisedBy |-> "none", partial |-> NoPartial,
          failed |-> {}, extreme |-> [t \in Tickets |-> 0],
          barTime |-> [s \in Symbols |-> 1],
          last_bar_times |-> [s \in Symbols |-> 0],
          requests |-> <<>>, skipped |-> {}]

\* the fields of the configuration a step reads, with the values it sees
Reads(fields) == {<<f, cfg[f]>> : f \in fields}

\* a step of the cycle that is no signal handling
Quiet ==
    [obs EXCEPT !.signal = NoSignal, !.flat = FALSE, !.admitted = FALSE,
                !.orders = <<>>, !.saves = <<>>, !.entry = NoEntry,
                !.partial = NoPartial]

\* the step `step` of the cycle has run and has read `fields`
Observed(step, fields) ==
    [Quiet EXCEPT !.steps = Append(@, step), !.seen = @ \cup Reads(fields)]

\* no _reconcile_state has run since the broker, the store or the engine's
\* memory last changed
NoRecon == [runs |-> 0, closed |-> {}, saved |-> {}, restored |-> {}]

\* "if not await self._run_blocking(self.connect_mt5): ... return"
AfterConnectAlways(ok) == "reconcile"

AfterConnect(ok) == IF ok THEN "reconcile" ELSE "exit"

\* run_async up to the reconcile step: self.running = True, connect_mt5
run_async ==
    /\ pc = "init"
    /\ running' = TRUE
    /\ \E ok \in BOOLEAN :
          /\ connected' = ok
          /\ pc' = AfterConnect(ok)
    /\ sent' = {}
    /\ recon' = IF connected' = connected THEN recon ELSE NoRecon
    /\ obs' = [NoObs EXCEPT !.stop = obs.stop,
                         !.startup = IF connected' THEN "connected" ELSE "failed",
                         !.extreme = obs.extreme, !.barTime = obs.barTime]
    /\ UNCHANGED reload
    /\ UNCHANGED conc
    /\ UNCHANGED <<positions, tick, pcDeals, db, symIdx,
                   partially_closed_tickets, queue, cfg, risk>>

\* get_open_positions(): [] when terminal_info() is falsy
get_open_positions == IF connected THEN OpenTickets ELSE {}

\* _reconcile_state: the tickets it closes, saves and restores
ReconcileClosesNone == {}

ReconcileCloses == get_active_trades \ get_open_positions

ReconcileSavesAll == get_open_positions

ReconcileSaves == get_open_positions \ get_active_trades

ReconcileRestores ==
    {t \in get_open_positions \cap get_active_trades : db[t].partial_close_done}

ReconciledStore ==
    [t \in Tickets |->
        IF t \in ReconcileCloses THEN close_trade(db, t)[t]
        ELSE IF t \in ReconcileSaves THEN save_trade(db, t, positions[t].sl)[t]
        ELSE db[t]]

_reconcile_state ==
    /\ pc = "reconcile"
    /\ db' = ReconciledStore
    /\ partially_closed_tickets' = partially_closed_tickets \cup ReconcileRestores
    /\ pc' = "while"
    /\ sent' = {}
    /\ recon' = [runs |-> IF recon.runs >= MaxRuns THEN MaxRuns ELSE recon.runs + 1,
                 closed |-> ReconcileCloses,
                 saved |-> ReconcileSaves,
                 restored |-> ReconcileRestores \ partially_closed_tickets]
    /\ obs' = [obs EXCEPT !.startup = "reconciled"]
    /\ UNCHANGED reload
    /\ UNCHANGED conc
    /\ UNCHANGED <<brokerVars, running, symIdx, queue, cfg, risk>>

\* "while self.running:" with the reconnect of a lost session
LoopTop ==
    /\ pc = "while"
    /\ sent' = {}
    /\ IF ~running
       THEN pc' = "exit" /\ UNCHANGED connected
       ELSE IF ~connected
            THEN \E ok \in BOOLEAN :
                    /\ connected' = ok
                    /\ pc' = IF ok THEN "risk" ELSE "while"
            ELSE pc' = "risk" /\ UNCHANGED connected
    /\ recon' = IF connected' = connected THEN recon ELSE NoRecon
    /\ obs' = [NoObs EXCEPT !.stop = obs.stop, !.startup = obs.startup,
                            !.failed = obs.failed, !.extreme = obs.extreme,
                            !.barTime = obs.barTime,
                            !.last_bar_times = obs.last_bar_times,
                            !.requests = obs.requests, !.skipped = obs.skipped]
    /\ UNCHANGED reload
    /\ UNCHANGED conc
    /\ UNCHANGED <<positions, tick, pcDeals, db, running, symIdx,
                   partially_closed_tickets, queue, cfg, risk>>

\* tick = symbol_info_tick(symbol); "if tick is None: continue"
SymbolTick ==
    /\ pc = "symbol"
    /\ sent' = {}
    /\ \E tickOk \in BOOLEAN :
          IF tickOk THEN pc' = "trailing" /\ UNCHANGED symIdx
          ELSE NextSymbol
    /\ risk' = NoRisk
    /\ recon' = NoRecon
    /\ obs' = Quiet
    /\ UNCHANGED reload
    /\ UNCHANGED conc
    /\ UNCHANGED <<brokerVars, db, running, partially_closed_tickets, queue, cfg>>

\* update_trailing_stops(symbol), one call under mt5_lock
update_trailing_stops ==
    /\ pc = "trailing"
    /\ pc' = "partial"
    /\ IF ~cfg.trailing_enabled
       THEN /\ sent' = {}
            /\ UNCHANGED <<positions, db>>
       ELSE \E marketData \in BOOLEAN :
              LET W == IF marketData THEN TrailingWants(CurrentSymbol) ELSE {}
              IN \E ok \in Answers(W) :
                 /\ positions' =
                       [t \in Tickets |->
                          IF t \in W
                          THEN ModifyBroker(positions, t, TrailingCandidate(t), ok[t])[t]
                          ELSE positions[t]]
                 /\ db' =
                       [t \in Tickets |->
                          IF t \in W
                          THEN ModifyStore(db, positions, t, TrailingCandidate(t), ok[t])[t]
                          ELSE db[t]]
                 /\ sent' = {ModRecord(t, TrailingCandidate(t), "trailing") : t \in W}
    /\ recon' = NoRecon
    /\ obs' = Observed(<<"trailing", CurrentSymbol>>,
                     IF cfg.trailing_enabled /\ positions_get(CurrentSymbol) # {}
                     THEN {"trailing_enabled", "trailing_distance"}
                     ELSE {"trailing_enabled"})
    /\ UNCHANGED reload
    /\ UNCHANGED conc
    /\ UNCHANGED <<tick, pcDeals, connected, running, symIdx,
                   partially_closed_tickets, queue, cfg, risk>>


\* ------------------------------------------------------ partial close
MaxPartialDeals == 2
MaxBars == 3

\* _execute_partial_close: round(position.volume * (partial_close_percent / 100.0), 2)
\* in hundredths of a lot. Python rounds the float product; on the volumes the
\* model reaches (1, 2 and 4 hundredths at 50 percent) that is round-half-up.
CloseVolume(volume) == (volume * cfg.partial_close_percent + 50) \div 100

\* _has_partial_close_history: a deal of the position whose comment contains
\* "Partial Close"; history_deals_get answering None (or raising) gives False
_has_partial_close_history(t, historyOk) == historyOk /\ pcDeals[t] > 0

\* _close_partial_position on the broker: an order for `volume` of the position
\* with comment "Partial Close @ TP1"; closing the whole volume closes the position
ClosePartialBroker(P, t, volume) ==
    IF volume >= P[t].volume
    THEN [P EXCEPT ![t].open = FALSE]
    ELSE [P EXCEPT ![t].volume = P[t].volume - volume]

\* check_partial_close(symbol) up to its loop: the positions snapshot
check_partial_close ==
    /\ pc = "partial"
    /\ sent' = {}
    /\ IF ~cfg.partial_close_enabled
       THEN pc' = "bar" /\ queue' = <<>>
       ELSE \E marketData \in BOOLEAN :
              IF marketData /\ positions_get(CurrentSymbol) # {}
              THEN /\ queue' = TicketSeq(positions_get(CurrentSymbol))
                   /\ pc' = "pc_visit"
              ELSE pc' = "bar" /\ queue' = <<>>
    /\ recon' = NoRecon
    /\ obs' = Observed(<<"partial", CurrentSymbol>>, {"partial_close_enabled"})
    /\ UNCHANGED reload
    /\ UNCHANGED conc
    /\ UNCHANGED <<brokerVars, db, running, symIdx, partially_closed_tickets, cfg, risk>>

\* _execute_partial_close when _close_partial_position returned False: the
\* body of "if self._close_partial_position(...)" is skipped
AfterCloseFailureMarks(t) == partially_closed_tickets \cup {t}

AfterCloseFailure(t) == partially_closed_tickets

\* what one pass of the loop leaves to be observed: the setting it read, the
\* answer to its partial-close order and the tickets whose order has failed
VisitObs(partial, failed) ==
    [obs EXCEPT
       !.seen = @ \cup Reads(IF queue # <<>> /\ Head(queue) \notin partially_closed_tickets
                             THEN {"tp1_distance"} ELSE {}),
       !.partial = partial,
       !.failed = failed]

\* one pass of "for pos in positions" up to and including the partial-close
\* order of _close_partial_position
PartialCloseVisit ==
    /\ pc = "pc_visit"
    /\ sent' = {}
    /\ IF queue = <<>>
       THEN /\ pc' = "bar"
            /\ obs' = VisitObs(NoPartial, obs.failed)
            /\ UNCHANGED <<positions, pcDeals, partially_closed_tickets, queue>>
       ELSE LET t == Head(queue) IN
            \E tickOk \in BOOLEAN, historyOk \in BOOLEAN, ok \in BOOLEAN :
              IF \/ t \in partially_closed_tickets
                 \/ ~tickOk
                 \/ ProfitPoints(t) < cfg.tp1_distance
              THEN \* continue
                   /\ queue' = Tail(queue)
                   /\ pc' = "pc_visit"
                   /\ obs' = VisitObs(NoPartial, obs.failed)
                   /\ UNCHANGED <<positions, pcDeals, partially_closed_tickets>>
              ELSE IF _has_partial_close_history(t, historyOk)
              THEN /\ partially_closed_tickets' = partially_closed_tickets \cup {t}
                   /\ queue' = Tail(queue)
                   /\ pc' = "pc_visit"
                   /\ obs' = VisitObs(NoPartial, obs.failed)
                   /\ UNCHANGED <<positions, pcDeals>>
              ELSE IF CloseVolume(positions[t].volume) < 1
              THEN \* volume too small: no order
                   /\ queue' = Tail(queue)
                   /\ pc' = "pc_visit"
                   /\ obs' = VisitObs(NoPartial, obs.failed)
                   /\ UNCHANGED <<positions, pcDeals, partially_closed_tickets>>
              ELSE IF \/ ~positions[t].open
                      \/ ~ok
                      \/ pcDeals[t] >= MaxPartialDeals
              THEN \* the order was not done
                   /\ queue' = Tail(queue)
                   /\ pc' = "pc_visit"
                   /\ partially_closed_tickets' = AfterCloseFailure(t)
                   /\ obs' = VisitObs([NoPartial EXCEPT !.ticket = t,
                                                        !.close = "failed"],
                                      obs.failed \cup {t})
                   /\ UNCHANGED <<positions, pcDeals>>
              ELSE /\ positions' =
                        ClosePartialBroker(positions, t, CloseVolume(positions[t].volume))
                   /\ pcDeals' = [pcDeals EXCEPT ![t] = @ + 1]
                   /\ pc' = "pc_sl"
                   /\ obs' = VisitObs([NoPartial EXCEPT !.ticket = t,
                                                        !.close = "done"],
                                      obs.failed)
                   /\ UNCHANGED <<partially_closed_tickets, queue>>
    /\ recon' = NoRecon
    /\ UNCHANGED reload
    /\ UNCHANGED conc
    /\ UNCHANGED <<tick, connected, db, running, symIdx, cfg, risk>>

\* _execute_partial_close after the 0.5 s sleep:
\* self._modify_position_sl(position.ticket, position.price_open, symbol)
PartialCloseBreakEven ==
    /\ pc = "pc_sl"
    /\ LET t == Head(queue) IN
       \E ok \in BOOLEAN :
          /\ positions' = ModifyBroker(positions, t, PriceOpen(t), ok)
          /\ db' = ModifyStore(db, positions, t, PriceOpen(t), ok)
          /\ sent' = IF positions[t].open
                     THEN {ModRecord(t, PriceOpen(t), "break_even")} ELSE {}
          /\ obs' = [obs EXCEPT
                       !.partial.be =
                          IF positions[t].open /\ ok THEN "done" ELSE "failed",
                       !.partial.alerts =
                          IF positions[t].open /\ ok THEN {"UPDATE"} ELSE {}]
    /\ pc' = "pc_mark"
    /\ recon' = NoRecon
    /\ UNCHANGED reload
    /\ UNCHANGED conc
    /\ UNCHANGED <<tick, pcDeals, connected, running, symIdx,
                   partially_closed_tickets, queue, cfg, risk>>

\* _execute_partial_close: partially_closed_tickets.add, db.update_trade
PartialCloseMark ==
    /\ pc = "pc_mark"
    /\ LET t == Head(queue) IN
          /\ partially_closed_tickets' = partially_closed_tickets \cup {t}
          /\ db' = update_trade_partial(db, t, PriceOpen(t))
    /\ queue' = Tail(queue)
    /\ pc' = "pc_visit"
    /\ sent' = {}
    /\ recon' = NoRecon
    /\ obs' = [obs EXCEPT !.partial.marked = TRUE]
    /\ UNCHANGED reload
    /\ UNCHANGED conc
    /\ UNCHANGED <<brokerVars, running, symIdx, cfg, risk>>


\* ------------------------------------------------- close_all_positions
CloseOutcomes == {"DONE", "REJECTED", "NONE"}

\* "for pos in positions" of close_all_positions over the snapshot `seq`, inside
\* the handler's single try/except. st = [positions, db, calls, raised].
\* symbol_info_tick(pos.symbol) answering None raises on ".bid" before the order
\* is sent, order_send answering None raises on ".retcode" after it; either
\* leaves the loop.
RECURSIVE CloseLoop(_, _, _, _)
CloseLoop(seq, tickOk, res, st) ==
    IF seq = <<>> \/ st.raised THEN st
    ELSE LET t == Head(seq) IN
         IF ~tickOk[PosSymbol(t)]
         THEN [st EXCEPT !.raised = TRUE]
         ELSE LET called == [st EXCEPT !.calls[t] = @ + 1] IN
              IF res[t] = "NONE"
              THEN [called EXCEPT !.raised = TRUE]
              ELSE IF res[t] = "DONE" /\ st.positions[t].open
              THEN CloseLoop(Tail(seq), tickOk, res,
                       [called EXCEPT !.positions[t].open = FALSE,
                                      !.db = close_trade(@, t)])
              ELSE CloseLoop(Tail(seq), tickOk, res, called)

\* the broker's answers to the ticks and orders of a close_all_positions over W
TickAnswers(W) ==
    {ok \in [Symbols -> BOOLEAN] :
        \A s \in Symbols : (\A t \in W : PosSymbol(t) # s) => ok[s]}

CloseAnswers(W) ==
    {res \in [Tickets -> CloseOutcomes] : \A t \in Tickets \ W : res[t] = "DONE"}

\* close_all_positions(symbol=None) / close_all_positions(symbol)
close_all_positions(snapshot, tickOk, res) ==
    CloseLoop(TicketSeq(snapshot), tickOk, res,
              [positions |-> positions, db |-> db, calls |-> NoCalls, raised |-> FALSE])

\* ------------------------------------------------------ check_risk_limits
Equities == 0..MaxMoney
PnLs == (0 - MaxMoney)..MaxMoney

\* mt5.account_info() is asked only when min_equity > 0, get_daily_pnl only
\* when max_daily_loss > 0
AccountAnswers ==
    IF cfg.min_equity > 0 THEN Equities \cup {NoAccount} ELSE {NoAccount}

PnLAnswers == IF cfg.max_daily_loss > 0 THEN PnLs ELSE {0}

\* check_risk_limits: "EQUITY" / "DAILY_LOSS" return False, "OK" returns True
RiskVerdictLoose(account, pnl) ==
    IF cfg.min_equity > 0 /\ account # NoAccount /\ account <= cfg.min_equity
    THEN "EQUITY"
    ELSE IF cfg.max_daily_loss > 0 /\ pnl <= 0 - cfg.max_daily_loss
    THEN "DAILY_LOSS"
    ELSE "OK"

RiskVerdict(account, pnl) ==
    IF cfg.min_equity > 0 /\ account # NoAccount /\ account < cfg.min_equity
    THEN "EQUITY"
    ELSE IF cfg.max_daily_loss > 0 /\ pnl < 0 - cfg.max_daily_loss
    THEN "DAILY_LOSS"
    ELSE "OK"

\* _send_formatted_alert: "if not self.telegram: return", else one send_alert
AlertsSent == IF cfg.telegram THEN 1 ELSE 0

\* the query of check_risk_limits that raises, "none" when neither does:
\* mt5.account_info is called only when min_equity > 0, get_daily_pnl only
\* when max_daily_loss > 0
RiskRaises ==
    {"none"} \cup (IF cfg.min_equity > 0 THEN {"account"} ELSE {})
             \cup (IF cfg.max_daily_loss > 0 THEN {"pnl"} ELSE {})

\* check_risk_limits with its "except Exception: return True": "ERROR" when
\* a query raised before a breach was found
RiskOutcome(account, pnl, raise) ==
    IF raise = "account" THEN "ERROR"
    ELSE IF RiskVerdict(account, pnl) = "EQUITY" THEN "EQUITY"
    ELSE IF raise = "pnl" THEN "ERROR"
    ELSE RiskVerdict(account, pnl)

\* run_async: "if not await self.check_risk_limits(): self.running = False; break"
RiskHaltsNever(verdict) == FALSE

RiskHaltsOnError(verdict) == verdict # "OK"

RiskHalts(verdict) == verdict \notin {"OK", "ERROR"}

check_risk_limits ==
    /\ pc = "risk"
    /\ sent' = {}
    /\ \E account \in AccountAnswers, pnl \in PnLAnswers, raise \in RiskRaises :
          LET verdict == RiskOutcome(account, pnl, raise)
              snapshot == IF verdict \in {"OK", "ERROR"} THEN {} ELSE get_open_positions
          IN \E tickOk \in TickAnswers(snapshot), res \in CloseAnswers(snapshot) :
             LET closed == close_all_positions(snapshot, tickOk, res)
             IN /\ IF verdict = "OK"
                   THEN /\ risk' = [verdict |-> "OK", account |-> account, pnl |-> pnl,
                                    open |-> OpenTickets, calls |-> NoCalls,
                                    alerts |-> 0]
                        /\ UNCHANGED <<positions, db>>
                   ELSE IF verdict = "ERROR"
                   THEN /\ risk' = [verdict |-> "ERROR",
                                    account |-> IF raise = "account" THEN NoAccount
                                                ELSE account,
                                    pnl |-> 0,
                                    open |-> OpenTickets, calls |-> NoCalls,
                                    alerts |-> 0]
                        /\ UNCHANGED <<positions, db>>
                   ELSE /\ risk' = [verdict |-> verdict, account |-> account, pnl |-> pnl,
                                    open |-> OpenTickets, calls |-> closed.calls,
                                    alerts |-> AlertsSent]
                        /\ positions' = closed.positions
                        /\ db' = closed.db
                /\ IF RiskHalts(verdict)
                   THEN running' = FALSE /\ pc' = "exit"
                   ELSE pc' = "symbol" /\ UNCHANGED running
                /\ obs' = Observed(<<"risk", 0>>,
                                   IF verdict = "EQUITY" \/ raise = "account"
                                   THEN {"min_equity"}
                                   ELSE {"min_equity", "max_daily_loss"})
    /\ symIdx' = 1
    /\ recon' = NoRecon
    /\ UNCHANGED reload
    /\ UNCHANGED conc
    /\ UNCHANGED <<tick, pcDeals, connected, partially_closed_tickets, queue, cfg>>


\* ------------------------------------------------- new bar and signal
\* the positions of `symbol` the HOLD branch sends output.sl to
HoldWants(symbol, sl) ==
    IF sl > 0 THEN {t \in positions_get(symbol) : HoldRatchet(t, sl)} ELSE {}

\* run_async, one symbol's new-bar check and HOLD signal: the agent's output.sl
\* is `sl` (0 for None or 0), each _modify_position_sl is answered ok[t]
SignalStep(stops) ==
    /\ pc = "bar"
    /\ \E newBar \in BOOLEAN, sl \in stops :
          LET W == IF newBar THEN HoldWants(CurrentSymbol, sl) ELSE {}
          IN \E ok \in Answers(W) :
             /\ positions' =
                   [t \in Tickets |->
                      IF t \in W THEN ModifyBroker(positions, t, sl, ok[t])[t]
                      ELSE positions[t]]
             /\ db' =
                   [t \in Tickets |->
                      IF t \in W THEN ModifyStore(db, positions, t, sl, ok[t])[t]
                      ELSE db[t]]
             /\ sent' = {ModRecord(t, sl, "hold") : t \in W}
             /\ obs' = [Observed(<<"signal", CurrentSymbol>>, {}) EXCEPT
                           !.signal = IF newBar /\ sl > 0
                                      THEN [signal |-> "HOLD", sl |-> sl, tp |-> 0]
                                      ELSE NoSignal]
    /\ NextSymbol
    /\ recon' = NoRecon
    /\ UNCHANGED reload
    /\ UNCHANGED conc
    /\ UNCHANGED <<tick, pcDeals, connected, running,
                   partially_closed_tickets, queue, cfg, risk>>

\* a bar whose HOLD signal may carry any stop
HoldSignal == SignalStep(Stops)

\* a bar whose signal carries no stop (output.sl is None)
PlainSignal == SignalStep({0})

\* "except Exception as e" of the loop body: the handler logs, sleeps 1 s and
\* the loop goes on with "while self.running"
AfterLoopErrorFatal == "exit"

AfterLoopError == "while"

\* ------------------------------------------------------ entry on a signal
\* "max(0.01, min(calc_volume, 10.0))", in hundredths of a lot
MinLot == 1
MaxLot == 1000

\* "Assuming ContractSize = 100 (Standard Gold Lot)"
ContractSize == 100

\* the balances and equities account_info() reports
Balances == {150, 200000}

\* account_info(): None, or a balance with an equity that floating losses
\* may have lowered
AccountInfos ==
    {NoAccountInfo} \cup
    {a \in [ok : {TRUE}, balance : Balances, equity : Balances] :
        a.equity <= a.balance}

\* check_spread: spread = (tick.ask - tick.bid) / symbol_info.point
Spread(symbol) == tick[symbol].ask - tick[symbol].bid

\* check_spread(symbol); `data` is "tick and symbol_info were answered"
check_spreadLoose(symbol, data) == data /\ ~(Spread(symbol) >= cfg.max_spread)

check_spread(symbol, data) == data /\ ~(Spread(symbol) > cfg.max_spread)

\* get_position_info(symbol)[0]: the direction of the first position of the
\* symbol, 0 when positions_get answers None or nothing
get_position_info(symbol, answered) ==
    IF ~answered \/ positions_get(symbol) = {} THEN 0
    ELSE IF PosType(Head(TicketSeq(positions_get(symbol)))) = "BUY" THEN 1 ELSE -1

\* round(calc_volume, 2) of the quotient n / d in hundredths of a lot: the
\* nearest hundredth, either neighbour when the binary float sits on a tie
Round2(n, d) ==
    LET q == n \div d
        r == n % d
    IN IF 2 * r < d THEN {q} ELSE IF 2 * r > d THEN {q + 1} ELSE {q, q + 1}

\* max(0.01, min(calc_volume, 10.0))
ClampNone(v) == v

Clamp(v) == IF v > MaxLot THEN MaxLot ELSE IF v < MinLot THEN MinLot ELSE v

\* execute_trade: tick.ask for a BUY, tick.bid for a SELL
EntryPrice(symbol, action) ==
    IF action = "BUY" THEN tick[symbol].ask ELSE tick[symbol].bid

\* execute_trade: dist = abs(entry_price - sl)
StopDist(symbol, action, sl) ==
    IF EntryPrice(symbol, action) >= sl THEN EntryPrice(symbol, action) - sl
    ELSE sl - EntryPrice(symbol, action)

\* execute_trade, "Dynamic Position Sizing": the volumes the order may carry.
\* cfg.risk_percent is in percent and the volume in hundredths of a lot, so
\* calc_volume = balance * risk_percent / (ContractSize * dist); `raises` is
\* an exception inside the try block
SizedVolumes(symbol, action, sl, account, raises) ==
    IF /\ cfg.use_risk_based_sizing /\ sl # 0
       /\ ~raises /\ account.ok
       /\ StopDist(symbol, action, sl) > 0
    THEN {Clamp(v) : v \in Round2(account.balance * cfg.risk_percent,
                                  ContractSize * StopDist(symbol, action, sl))}
    ELSE {cfg.lot_size}

\* execute_trade: the request handed to mt5.order_send ("if sl:", "if tp:")
OrderRequest(symbol, action, volume, sl, tp) ==
    [symbol |-> symbol, type |-> action, volume |-> volume,
     price |-> EntryPrice(symbol, action), sl |-> sl, tp |-> tp]

\* execute_trade: trade_dict of db.save_trade
TradeDictNoStops(ticket, request) ==
    [ticket |-> ticket, symbol |-> request.symbol, type |-> request.type,
     volume |-> request.volume, price_open |-> request.price,
     sl |-> 0, tp |-> 0]

TradeDict(ticket, request) ==
    [ticket |-> ticket, symbol |-> request.symbol, type |-> request.type,
     volume |-> request.volume, price_open |-> request.price,
     sl |-> request.sl, tp |-> request.tp]

\* the tickets the broker has issued so far
UsedTickets == {t \in Tickets : positions[t].open \/ db[t].status # "NONE"}

\* the tickets the broker may give a new position of `symbol`: none once it
\* has issued MaxOpen tickets
FreshTickets(symbol) ==
    {t \in Tickets \ UsedTickets :
        PosSymbol(t) = symbol /\ Cardinality(UsedTickets) < MaxOpen}

\* run_async, "Execute Logic": what a BUY (against = -1) or SELL (against = 1)
\* signal does, by the filters and pos_dir
EntryBranchReverses(pos_dir, against, admitted) ==
    IF ~admitted \/ pos_dir = 0 - against THEN "none" ELSE "open"

EntryBranchAdds(pos_dir, against, admitted) ==
    IF ~admitted THEN "none" ELSE IF pos_dir = against THEN "close" ELSE "open"

EntryBranch(pos_dir, against, admitted) ==
    IF ~admitted THEN "none"
    ELSE IF pos_dir = against THEN "close"
    ELSE IF pos_dir = 0 THEN "open"
    ELSE "none"

\* the rest of a signal step that sent no order and closed nothing
NoTrade ==
    /\ NextSymbol
    /\ UNCHANGED <<positions, db>>

\* run_async, a new bar whose signal is BUY or SELL: check_spread, the news
\* filter, then by pos_dir the reversal close_all_positions(symbol) or
\* execute_trade(symbol, signal, sl=output.sl, tp=output.tp)
EntrySignal ==
    /\ pc = "bar"
    /\ \E signal \in {"BUY", "SELL"}, sl \in Stops, tp \in {0, MaxPrice},
          answered \in BOOLEAN, data \in BOOLEAN, news \in BOOLEAN :
          LET symbol == CurrentSymbol
              pos_dir == get_position_info(symbol, answered)
              admitted == check_spread(symbol, data) /\ news
              against == IF signal = "BUY" THEN -1 ELSE 1
              seen == [Observed(<<"signal", symbol>>, {}) EXCEPT
                          !.signal = [signal |-> signal, sl |-> sl, tp |-> tp],
                          !.flat = (pos_dir = 0),
                          !.admitted = admitted,
                          !.entry = [NoEntry EXCEPT !.checked = TRUE, !.data = data,
                                                    !.spread = Spread(symbol),
                                                    !.result = check_spread(symbol, data),
                                                    !.pos_dir = pos_dir]]
              branch == EntryBranch(pos_dir, against, admitted)
          IN IF branch = "none"
             THEN NoTrade /\ obs' = seen
             ELSE IF branch = "close"
             THEN \E tickOk \in TickAnswers(positions_get(symbol)),
                     res \in CloseAnswers(positions_get(symbol)) :
                     LET closed == close_all_positions(positions_get(symbol), tickOk, res)
                     IN /\ positions' = closed.positions
                        /\ db' = closed.db
                        /\ NextSymbol
                        /\ obs' = [seen EXCEPT
                                     !.entry.closes = {t \in Tickets : closed.calls[t] > 0},
                                     !.entry.closeRaised = closed.raised]
             ELSE \E account \in AccountInfos, raises \in BOOLEAN,
                     outcome \in IF FreshTickets(symbol) = {}
                                 THEN CloseOutcomes \ {"DONE"} ELSE CloseOutcomes :
                  \E volume \in SizedVolumes(symbol, signal, sl, account, raises) :
                     LET request == OrderRequest(symbol, signal, volume, sl, tp)
                         ticket == IF outcome = "DONE"
                                   THEN Head(TicketSeq(FreshTickets(symbol))) ELSE 0
                         sized == cfg.use_risk_based_sizing /\ sl # 0
                         done == [seen EXCEPT
                                    !.orders = <<request>>,
                                    !.saves = IF outcome = "DONE"
                                              THEN <<TradeDict(ticket, request)>>
                                              ELSE <<>>,
                                    !.raised = (outcome = "NONE"),
                                    !.raisedAt = IF outcome = "NONE" THEN symIdx ELSE 0,
                                    !.raisedBy = IF outcome = "NONE" THEN "other"
                                                 ELSE "none",
                                    !.entry = [@ EXCEPT
                                       !.sized = sized,
                                       !.account = IF sized /\ ~raises THEN account
                                                   ELSE NoAccountInfo,
                                       !.dist = StopDist(symbol, signal, sl),
                                       !.raises = sized /\ raises,
                                       !.outcome = outcome,
                                       !.ticket = ticket]]
                     IN /\ obs' = done
                        /\ IF outcome = "DONE"
                           THEN /\ positions' =
                                     [positions EXCEPT ![ticket] =
                                        [open |-> TRUE, type |-> signal,
                                         sl |-> sl, volume |-> volume]]
                                /\ db' = save_trade(db, ticket, sl)
                           ELSE UNCHANGED <<positions, db>>
                        /\ IF outcome = "NONE"
                           THEN pc' = AfterLoopError /\ symIdx' = 1
                           ELSE NextSymbol
    /\ sent' = {}
    /\ recon' = NoRecon
    /\ UNCHANGED <<tick, pcDeals, connected, running, partially_closed_tickets,
                   queue, cfg, risk, conc, reload>>

\* the status callback and "await asyncio.sleep(0.5)"
Sleep ==
    /\ pc = "sleep"
    /\ pc' = "while"
    /\ sent' = {}
    /\ recon' = NoRecon
    /\ obs' = Quiet
    /\ UNCHANGED reload
    /\ UNCHANGED conc
    /\ UNCHANGED <<brokerVars, db, running, symIdx,
                   partially_closed_tickets, queue, cfg, risk>>

\* a step of the iteration raises: _run_blocking(mt5.account_info) and the tick
\* query ("symbol"), a position-management call ("trailing", "partial"), the
\* bar query, account.equity of a None account ("bar"), agent_adapter.predict,
\* which hands on what the agent raises ("bar", cause "predict"), the status
\* callback ("sleep")
LoopError ==
    /\ pc \in {"symbol", "trailing", "partial", "bar", "sleep"}
    /\ pc' = AfterLoopError
    /\ symIdx' = 1
    /\ queue' = <<>>
    /\ sent' = {}
    /\ risk' = NoRisk
    /\ recon' = NoRecon
    /\ \E cause \in IF pc = "bar" THEN {"predict", "other"} ELSE {"other"} :
          obs' = [Quiet EXCEPT !.raised = TRUE,
                               !.raisedAt = IF pc = "sleep" THEN 0 ELSE symIdx,
                               !.raisedBy = cause]
    /\ UNCHANGED <<brokerVars, db, running, partially_closed_tickets, cfg, conc, reload>>

\* ------------------------------------------------- the bar clock
\* run_async: "last_bar_times[symbol] = current_bar_time" comes directly after
\* the comparison, before get_history and predict, whatever happens to them
LastBarAfterSuccess(outcome, current_bar_time, last) ==
    IF outcome = "signal" THEN current_bar_time ELSE last

LastBarAfter(outcome, current_bar_time, last) == current_bar_time

\* what the bar step of a symbol comes to: "none" (rates is None or the bar
\* time is unchanged), "empty" (df_hist.empty), "raised" (get_history
\* raises), "predict_raised" (the signal was requested and predict raises),
\* "signal"
BarOutcome(rates, current_bar_time, last, hist, predict) ==
    IF ~rates \/ current_bar_time = last THEN "none"
    ELSE IF hist = "empty" THEN "empty"
    ELSE IF hist = "raise" THEN "raised"
    ELSE IF predict = "raise" THEN "predict_raised"
    ELSE "signal"

\* run_async, lines "rates = copy_rates_from_pos(...)" to "output = predict":
\* the bar step with the bar clock of the broker and last_bar_times; the
\* signal it obtains is a HOLD without stop (SignalStep leaves the bar clock
\* to the environment instead and acts on the signal)
BarSignal ==
    /\ pc = "bar"
    /\ \E rates \in BOOLEAN, hist \in {"ok", "empty", "raise"},
          predict \in {"ok", "raise"} :
          LET symbol == CurrentSymbol
              current_bar_time == obs.barTime[symbol]
              outcome == BarOutcome(rates, current_bar_time,
                                    obs.last_bar_times[symbol], hist, predict)
              bars == [Observed(<<"signal", symbol>>, {}) EXCEPT
                         !.last_bar_times[symbol] =
                            IF outcome = "none" THEN @
                            ELSE LastBarAfter(outcome, current_bar_time, @),
                         !.requests =
                            IF outcome \in {"signal", "predict_raised"}
                            THEN Append(@, <<symbol, current_bar_time>>) ELSE @,
                         !.skipped =
                            IF outcome \in {"empty", "raised"}
                            THEN @ \cup {<<symbol, current_bar_time>>} ELSE @]
          IN IF outcome \in {"raised", "predict_raised"}
             THEN \* except Exception of the loop
                  /\ pc' = AfterLoopError
                  /\ symIdx' = 1
                  /\ obs' = [bars EXCEPT !.raised = TRUE, !.raisedAt = symIdx,
                                         !.raisedBy = IF outcome = "raised"
                                                      THEN "other" ELSE "predict"]
             ELSE /\ NextSymbol
                  /\ obs' = bars
    /\ sent' = {}
    /\ recon' = NoRecon
    /\ UNCHANGED reload
    /\ UNCHANGED conc
    /\ UNCHANGED <<brokerVars, db, running, partially_closed_tickets, queue,
                   cfg, risk>>

\* a bar of a symbol closes at the broker: the time of the current bar moves on
NewBar ==
    /\ \E symbol \in Symbols :
          /\ obs.barTime[symbol] < MaxBars
          /\ obs' = [obs EXCEPT !.barTime[symbol] = @ + 1]
    /\ UNCHANGED <<brokerVars, db, running, pc, symIdx, partially_closed_tickets,
                   queue, cfg, sent, risk, recon, conc, reload>>

\* ------------------------------------------------------------ environment
\* the price update_trailing_stops trails ticket t by: tick.bid of a BUY,
\* tick.ask of a SELL
TrailPrice(t, tk) == IF PosType(t) = "BUY" THEN tk.bid ELSE tk.ask

\* the running peak (BUY) or trough (SELL) of that price since the position
\* was opened; obs.extreme[t] is the extreme of the earlier ticks, 0 when the
\* current tick is the extreme
RunningExtreme(t) ==
    IF obs.extreme[t] = 0 THEN TrailPrice(t, tick[PosSymbol(t)])
    ELSE obs.extreme[t]

ExtremeAfter(symbol, tk) ==
    [t \in Tickets |->
        IF ~positions[t].open \/ PosSymbol(t) # symbol THEN obs.extreme[t]
        ELSE IF TrailPrice(t, tk) = RunningExtreme(t)
                \/ Improves(PosType(t), TrailPrice(t, tk), RunningExtreme(t))
        THEN 0
        ELSE RunningExtreme(t)]

\* a new tick of a symbol that holds a position
PriceMove ==
    /\ \E t \in OpenTickets, tk \in TickValues :
          /\ tick' = [tick EXCEPT ![PosSymbol(t)] = tk]
          /\ obs' = [obs EXCEPT !.extreme = ExtremeAfter(PosSymbol(t), tk)]
    /\ recon' = NoRecon
    /\ UNCHANGED reload
    /\ UNCHANGED conc
    /\ UNCHANGED <<positions, pcDeals, connected, db, running, pc, symIdx,
                   partially_closed_tickets, queue, cfg, sent, risk>>

\* the terminal loses its session with the trade server: mt5.terminal_info()
\* turns falsy and get_open_positions answers []
Disconnect ==
    /\ connected
    /\ connected' = FALSE
    /\ recon' = NoRecon
    /\ UNCHANGED <<positions, tick, pcDeals, db, running, pc, symIdx,
                   partially_closed_tickets, queue, cfg, sent, risk, conc,
                   reload, obs>>

\* the broker closes a position (stop-loss, take-profit or the terminal's user)
BrokerClose ==
    /\ \E t \in OpenTickets : positions' = [positions EXCEPT ![t].open = FALSE]
    /\ recon' = NoRecon
    /\ UNCHANGED obs
    /\ UNCHANGED reload
    /\ UNCHANGED conc
    /\ UNCHANGED <<tick, pcDeals, connected, db, running, pc, symIdx,
                   partially_closed_tickets, queue, cfg, sent, risk>>

\* a position appears at the broker (a pending order fills, a manual trade)
BrokerOpen ==
    /\ \E t \in Tickets \ OpenTickets, p \in InitialPositions \ {NoPosition} :
          positions' = [positions EXCEPT ![t] = p]
    /\ recon' = NoRecon
    /\ UNCHANGED obs
    /\ UNCHANGED reload
    /\ UNCHANGED conc
    /\ UNCHANGED <<tick, pcDeals, connected, db, running, pc, symIdx,
                   partially_closed_tickets, queue, cfg, sent, risk>>

\* stop() (or "running = False" of the web endpoint), called from another
\* thread at any time after run() has been invoked
stop ==
    /\ pc # "exit"
    /\ ~obs.stop
    /\ running' = FALSE
    /\ obs' = [obs EXCEPT !.stop = TRUE]
    /\ UNCHANGED <<brokerVars, db, pc, symIdx, partially_closed_tickets, queue,
                   cfg, sent, risk, recon, conc, reload>>

\* run() called again on the same engine after run_async has returned
run ==
    /\ pc = "exit"
    /\ pc' = "init"
    /\ obs' = [NoObs EXCEPT !.extreme = obs.extreme, !.barTime = obs.barTime]
    /\ UNCHANGED <<brokerVars, db, running, symIdx, partially_closed_tickets,
                   queue, cfg, sent, risk, recon, conc, reload>>

\* the process dies (or the run ends) and a new TradingEngine is constructed:
\* __init__ sets running = False and partially_closed_tickets = set()
Restart ==
    /\ pc # "init"
    /\ pc' = "init"
    /\ running' = FALSE
    /\ partially_closed_tickets' = {}
    /\ queue' = <<>>
    /\ symIdx' = 1
    /\ sent' = {}
    /\ risk' = NoRisk
    /\ recon' = NoRecon
    /\ obs' = NoObs
    /\ UNCHANGED reload
    /\ UNCHANGED conc
    /\ UNCHANGED <<brokerVars, db, cfg>>

\* ------------------------------------------------- broker calls of threads
engineVars ==
    <<positions, tick, pcDeals, connected, db, running, pc, symIdx,
      partially_closed_tickets, queue, cfg, sent, risk, recon, reload, obs>>

\* the method thread th is executing: the called one while a call is under way
Running(th) == IF conc.inner[th] # "none" THEN conc.inner[th] ELSE conc.call[th]

\* thread th is inside an engine method and neither waiting for a lock nor
\* inside a broker call, a TradeStore call or a notifier send
Executing(th) ==
    /\ conc.call[th] # "idle"
    /\ conc.wait[th] = "none"
    /\ conc.db_lock # th
    /\ th \notin conc.inBroker
    /\ th \notin conc.sending

\* a thread enters an engine method; a method of UsesLock comes to
\* "with self.mt5_lock:" first
Enter ==
    /\ \E th \in Threads, method \in EngineCalls \cup GuiCalls :
          /\ conc.call[th] = "idle"
          /\ th = "engine" => pc \notin {"init", "exit"}
          /\ method \in ThreadCalls(th)
          /\ conc' = [conc EXCEPT !.call[th] = method,
                                  !.wait[th] = IF UsesLock(method) THEN "mt5" ELSE "none"]
    /\ UNCHANGED engineVars

\* threading.Lock.acquire: the waiting thread takes the lock once it is free
Acquire ==
    /\ \E th \in Threads :
          \/ /\ conc.wait[th] = "mt5"
             /\ conc.mt5_lock = "free"
             /\ conc' = [conc EXCEPT !.mt5_lock = th, !.wait[th] = "none"]
          \/ /\ conc.wait[th] = "db"
             /\ conc.db_lock = "free"
             /\ conc' = [conc EXCEPT !.db_lock = th, !.wait[th] = "none"]
    /\ UNCHANGED engineVars

\* the method calls another engine method (update_trailing_stops and
\* _execute_partial_close call _modify_position_sl)
InnerCall ==
    /\ \E th \in Threads :
          /\ Executing(th)
          /\ conc.inner[th] = "none"
          /\ \E method \in Calls(conc.call[th]) :
                conc' = [conc EXCEPT !.inner[th] = method,
                                     !.wait[th] = IF UsesLock(method) THEN "mt5" ELSE "none"]
    /\ UNCHANGED engineVars

\* the called method returns
InnerReturn ==
    /\ \E th \in Threads :
          /\ Executing(th)
          /\ conc.inner[th] # "none"
          /\ conc' = [conc EXCEPT !.inner[th] = "none"]
    /\ UNCHANGED engineVars

\* the method calls into the MetaTrader5 module (positions_get, order_send, ...)
BrokerCall ==
    /\ \E th \in Threads :
          /\ Executing(th)
          /\ conc' = [conc EXCEPT !.inBroker = @ \cup {th}]
    /\ UNCHANGED engineVars

\* the MetaTrader5 call returns
BrokerReturn ==
    /\ \E th \in conc.inBroker : conc' = [conc EXCEPT !.inBroker = @ \ {th}]
    /\ UNCHANGED engineVars

\* the method calls db.save_trade, db.update_trade or db.close_trade and comes
\* to "with self.lock:" of DatabaseManager
StoreCall ==
    /\ \E th \in Threads :
          /\ Executing(th)
          /\ WritesStore(Running(th))
          /\ conc' = [conc EXCEPT !.wait[th] = "db"]
    /\ UNCHANGED engineVars

\* the TradeStore method returns (its own try/except logs every sqlite
\* error); leaving "with self.lock:" releases the lock
StoreReturn ==
    /\ \E th \in Threads :
          /\ conc.db_lock = th
          /\ conc' = [conc EXCEPT !.db_lock = "free"]
    /\ UNCHANGED engineVars

\* the lock a method leaves held when it returns or raises: none, "with"
\* releases it on every path
Release(th, raised) == "free"

\* the method returns or raises; leaving "with self.mt5_lock:" releases the lock
Leave ==
    /\ \E th \in Threads, raised \in BOOLEAN :
          /\ Executing(th)
          /\ conc.inner[th] = "none"
          /\ conc' = [conc EXCEPT !.call[th] = "idle",
                                  !.mt5_lock = IF @ = th THEN Release(th, raised) ELSE @]
    /\ UNCHANGED engineVars

\* send_alert on a thread without a running event loop (an executor worker,
\* the GUI thread): asyncio.get_running_loop raises RuntimeError and
\* self.telegram.send_message(msg) is called directly
SendAlert ==
    /\ cfg.telegram
    /\ \E th \in Threads :
          /\ Executing(th)
          /\ Alerts(Running(th))
          /\ conc' = [conc EXCEPT !.sending = @ \cup {th}]
    /\ UNCHANGED engineVars

\* TelegramNotifier.send_message returns: sent, refused or timed out after
\* 10 s, every failure logged
SendReturn ==
    /\ \E th \in conc.sending : conc' = [conc EXCEPT !.sending = @ \ {th}]
    /\ UNCHANGED engineVars

\* send_alert on the event-loop thread (check_risk_limits, the finally clause
\* of run_async): loop.run_in_executor(None, self.telegram.send_message, msg),
\* not awaited
LoopAlert ==
    /\ cfg.telegram
    /\ pc \notin {"init", "exit"}
    /\ conc.call["engine"] = "idle"
    /\ ~conc.background
    /\ conc' = [conc EXCEPT !.background = TRUE]
    /\ UNCHANGED engineVars

\* the send handed to the default executor finishes
BackgroundDone ==
    /\ conc.background
    /\ conc' = [conc EXCEPT !.background = FALSE]
    /\ UNCHANGED engineVars

\* -------------------------------------------------------- configurations
\* partial_close_percent=50 of TradingEngine.__init__
partial_close_percent == 50

\* risk_percent=0.01 of TradingEngine.__init__, in percent
risk_percent == 1

\* lot_size=0.01 of TradingEngine.__init__, in hundredths of a lot
lot_size == 1

Configs ==
    [trailing_enabled : BOOLEAN, trailing_distance : Distances,
     partial_close_enabled : BOOLEAN, tp1_distance : Distances,
     partial_close_percent : {partial_close_percent},
     min_equity : 0..MaxMoney, max_daily_loss : 0..MaxMoney,
     telegram : BOOLEAN,
     max_spread : {MaxDistance}, use_risk_based_sizing : {FALSE},
     risk_percent : {risk_percent}, lot_size : {lot_size}]

\* the configurations of the entry path: spread ceiling in points, sizing
\* policy, fixed lot in hundredths of a lot; position management is off
EntryConfigs ==
    [trailing_enabled : {FALSE}, trailing_distance : {1},
     partial_close_enabled : {FALSE}, tp1_distance : {1},
     partial_close_percent : {partial_close_percent},
     min_equity : {0}, max_daily_loss : {0}, telegram : {FALSE},
     max_spread : 0..1, use_risk_based_sizing : BOOLEAN,
     risk_percent : {risk_percent}, lot_size : {5 * lot_size}]

\* ------------------------------------------------------------ hot reload
\* the fields update_config assigns, in the order of its assignments
ReloadFields ==
    <<"max_daily_loss", "min_equity", "trailing_enabled", "trailing_distance",
      "partial_close_enabled", "tp1_distance", "partial_close_percent">>

\* the configurations another thread hands to update_config: new risk limits
\* and trailing switch, the other fields as they are
NewConfigs ==
    {c \in Configs : /\ c.telegram = cfg.telegram
                     /\ c.trailing_distance = cfg.trailing_distance
                     /\ c.partial_close_enabled = cfg.partial_close_enabled
                     /\ c.tp1_distance = cfg.tp1_distance}

\* the places in ReloadFields of the fields update_config converts with
\* int() or float(), which raise on a value that is not a number
ConvertedFields == {1, 2, 4, 6, 7}

\* update_config(config) is called on another thread (GUI, web settings);
\* bad is the place of the first supplied value that does not convert, 0 when
\* every value converts
update_config ==
    /\ reload.at = 0
    /\ reload.calls < MaxReloads
    /\ pc \notin {"init", "exit"}
    /\ \E new \in NewConfigs, bad \in {0} \cup ConvertedFields :
          reload' = [at |-> 1, old |-> cfg, new |-> new, calls |-> reload.calls + 1,
                     bad |-> bad, result |-> "none"]
    /\ UNCHANGED <<brokerVars, db, running, pc, symIdx, partially_closed_tickets,
                   queue, cfg, sent, risk, recon, conc, obs>>

\* one "if key in config: self.field = ..." of update_config
UpdateField ==
    /\ reload.at > 0
    /\ IF reload.at = reload.bad
       THEN \* the conversion raises: except Exception, return False
            /\ cfg' = cfg
            /\ reload' = [reload EXCEPT !.at = 0, !.result = "False"]
       ELSE /\ cfg' = [cfg EXCEPT ![ReloadFields[reload.at]] =
                                    reload.new[ReloadFields[reload.at]]]
            /\ reload' = [reload EXCEPT
                            !.at = IF @ = Len(ReloadFields) THEN 0 ELSE @ + 1,
                            !.result = IF reload.at = Len(ReloadFields)
                                       THEN "True" ELSE "none"]
    /\ UNCHANGED <<brokerVars, db, running, pc, symIdx, partially_closed_tickets,
                   queue, sent, risk, recon, conc, obs>>

EngineInit ==
    /\ running = FALSE
    /\ pc = "init"
    /\ symIdx = 1
    /\ partially_closed_tickets = {}
    /\ queue = <<>>
    /\ sent = {}
    /\ risk = NoRisk
    /\ recon = NoRecon
    /\ conc = Idle
    /\ obs = NoObs

OnePosition ==
    {P \in [Tickets -> InitialPositions] : Cardinality({t \in Tickets : P[t].open}) <= 1}

\* -------- stop-loss management: trailing stops, HOLD stops and the break-even
\* move of a partial close on one position; the risk limits are off
InitStops ==
    /\ EngineInit
    /\ positions \in OnePosition
    /\ tick = [s \in Symbols |-> [bid |-> 2, ask |-> 2]]
    /\ pcDeals = [t \in Tickets |-> 0]
    /\ connected = TRUE
    /\ db = [t \in Tickets |-> NoRow]
    /\ cfg \in {c \in Configs :
                  /\ c.trailing_enabled /\ c.partial_close_enabled
                  /\ c.min_equity = 0 /\ c.max_daily_loss = 0 /\ ~c.telegram}
    /\ reload = NoReload

NextStops ==
    \/ run_async
    \/ _reconcile_state
    \/ LoopTop
    \/ check_risk_limits
    \/ SymbolTick
    \/ update_trailing_stops
    \/ check_partial_close
    \/ PartialCloseVisit
    \/ PartialCloseBreakEven
    \/ PartialCloseMark
    \/ HoldSignal
    \/ Sleep
    \/ PriceMove
    \/ BrokerClose

SpecStops == InitStops /\ [][NextStops]_vars

\* -------- partial take-profit over restarts: trailing stops are off and the
\* signals carry no stop
InitPartial ==
    /\ EngineInit
    /\ positions \in OnePosition
    /\ tick = [s \in Symbols |-> [bid |-> 2, ask |-> 2]]
    /\ pcDeals = [t \in Tickets |-> 0]
    /\ connected = TRUE
    /\ db = [t \in Tickets |-> NoRow]
    /\ cfg \in {c \in Configs :
                  /\ ~c.trailing_enabled /\ c.partial_close_enabled
                  /\ c.trailing_distance = 1
                  /\ c.min_equity = 0 /\ c.max_daily_loss = 0 /\ ~c.telegram}
    /\ reload = NoReload

NextPartial ==
    \/ run_async
    \/ _reconcile_state
    \/ LoopTop
    \/ check_risk_limits
    \/ SymbolTick
    \/ update_trailing_stops
    \/ check_partial_close
    \/ PartialCloseVisit
    \/ PartialCloseBreakEven
    \/ PartialCloseMark
    \/ PlainSignal
    \/ Sleep
    \/ PriceMove
    \/ BrokerClose
    \/ Restart

SpecPartial == InitPartial /\ [][NextPartial]_vars


\* -------- the risk circuit breakers: any positions, the limits and the notifier
\* vary, position management is off
InitRisk ==
    /\ EngineInit
    /\ positions \in [Tickets -> InitialPositions]
    /\ tick = [s \in Symbols |-> [bid |-> 2, ask |-> 2]]
    /\ pcDeals = [t \in Tickets |-> 0]
    /\ connected = TRUE
    /\ db = [t \in Tickets |-> NoRow]
    /\ cfg \in {c \in Configs :
                  /\ ~c.trailing_enabled /\ ~c.partial_close_enabled
                  /\ c.trailing_distance = 1 /\ c.tp1_distance = 1}
    /\ reload = NoReload

NextRisk ==
    \/ run_async
    \/ _reconcile_state
    \/ LoopTop
    \/ check_risk_limits
    \/ SymbolTick
    \/ update_trailing_stops
    \/ check_partial_close
    \/ PlainSignal
    \/ Sleep
    \/ Restart

SpecRisk == InitRisk /\ [][NextRisk]_vars

\* the engine is started again and again, the terminal answers a connect
\* attempt again and again, the Reconciler runs again and again, and every
\* step of the loop that stays ready to run does run
ConnectSucceeds == run_async /\ connected'

RiskFairness ==
    /\ WF_vars(run_async)
    /\ SF_vars(ConnectSucceeds)
    /\ SF_vars(_reconcile_state)
    /\ WF_vars(LoopTop)
    /\ WF_vars(check_risk_limits)
    /\ WF_vars(SymbolTick)
    /\ WF_vars(update_trailing_stops)
    /\ WF_vars(check_partial_close)
    /\ WF_vars(PlainSignal)
    /\ WF_vars(Sleep)
    /\ WF_vars(Restart)

SpecRiskFair == InitRisk /\ [][NextRisk]_vars /\ RiskFairness

\* -------- the Reconciler over every store and broker state, run again by a
\* second run() of the same engine
Rows ==
    {NoRow} \cup [status : {"OPEN", "CLOSED"}, sl : {0}, partial_close_done : BOOLEAN,
                  profit : {"0.0"}]

InitRecon ==
    /\ EngineInit
    /\ positions \in [Tickets -> InitialPositions]
    /\ tick = [s \in Symbols |-> [bid |-> 2, ask |-> 2]]
    /\ pcDeals = [t \in Tickets |-> 0]
    /\ connected = TRUE
    /\ db \in [Tickets -> Rows]
    /\ cfg \in {c \in Configs :
                  /\ ~c.trailing_enabled /\ ~c.partial_close_enabled
                  /\ c.trailing_distance = 1 /\ c.tp1_distance = 1
                  /\ c.min_equity = 0 /\ c.max_daily_loss = 0 /\ ~c.telegram}
    /\ reload = NoReload

NextRecon ==
    \/ run_async
    \/ _reconcile_state
    \/ LoopTop
    \/ stop
    \/ run
    \/ BrokerClose
    \/ BrokerOpen
    \/ Restart

SpecRecon == InitRecon /\ [][NextRecon]_vars

\* -------- reconciliation over a session that may be lost between
\* connect_mt5 and _reconcile_state
NextReconLost ==
    \/ NextRecon
    \/ Disconnect

SpecReconLost == InitRecon /\ [][NextReconLost]_vars

\* -------- the broker calls of the engine's loop and of the GUI thread
InitConc ==
    /\ EngineInit
    /\ positions \in [Tickets -> InitialPositions]
    /\ tick = [s \in Symbols |-> [bid |-> 2, ask |-> 2]]
    /\ pcDeals = [t \in Tickets |-> 0]
    /\ connected = TRUE
    /\ db = [t \in Tickets |-> NoRow]
    /\ cfg \in {c \in Configs :
                  /\ c.trailing_enabled /\ c.partial_close_enabled
                  /\ c.trailing_distance = 1 /\ c.tp1_distance = 1
                  /\ c.min_equity = 0 /\ c.max_daily_loss = 0 /\ ~c.telegram}
    /\ reload = NoReload

NextConc ==
    \/ run_async
    \/ Enter
    \/ Acquire
    \/ InnerCall
    \/ InnerReturn
    \/ BrokerCall
    \/ BrokerReturn
    \/ StoreCall
    \/ StoreReturn
    \/ Leave

SpecConc == InitConc /\ [][NextConc]_vars

\* -------- the notifier: the same threads with a TelegramNotifier configured
InitAlert ==
    /\ EngineInit
    /\ positions \in OnePosition
    /\ tick = [s \in Symbols |-> [bid |-> 2, ask |-> 2]]
    /\ pcDeals = [t \in Tickets |-> 0]
    /\ connected = TRUE
    /\ db = [t \in Tickets |-> NoRow]
    /\ cfg \in {c \in Configs :
                  /\ c.trailing_enabled /\ c.partial_close_enabled
                  /\ c.trailing_distance = 1 /\ c.tp1_distance = 1
                  /\ c.min_equity = 0 /\ c.max_daily_loss = 0 /\ c.telegram}
    /\ reload = NoReload

NextAlert ==
    \/ NextConc
    \/ SendAlert
    \/ SendReturn
    \/ LoopAlert
    \/ BackgroundDone

SpecAlert == InitAlert /\ [][NextAlert]_vars

\* -------- the bar clock: no position, position management off, the bars of
\* the symbols close while the loop runs
InitBars ==
    /\ EngineInit
    /\ positions = [t \in Tickets |-> NoPosition]
    /\ tick = [s \in Symbols |-> [bid |-> 2, ask |-> 2]]
    /\ pcDeals = [t \in Tickets |-> 0]
    /\ connected = TRUE
    /\ db = [t \in Tickets |-> NoRow]
    /\ cfg \in {c \in Configs :
                  /\ ~c.trailing_enabled /\ ~c.partial_close_enabled
                  /\ c.trailing_distance = 1 /\ c.tp1_distance = 1
                  /\ c.min_equity = 0 /\ c.max_daily_loss = 0 /\ ~c.telegram}
    /\ reload = NoReload

NextBars ==
    \/ run_async
    \/ _reconcile_state
    \/ LoopTop
    \/ check_risk_limits
    \/ SymbolTick
    \/ update_trailing_stops
    \/ check_partial_close
    \/ BarSignal
    \/ Sleep
    \/ NewBar

SpecBars == InitBars /\ [][NextBars]_vars

\* -------- hot reload of the configuration while the loop runs; no position
\* is open
InitConfig ==
    /\ EngineInit
    /\ positions = [t \in Tickets |-> NoPosition]
    /\ tick = [s \in Symbols |-> [bid |-> 2, ask |-> 2]]
    /\ pcDeals = [t \in Tickets |-> 0]
    /\ connected = TRUE
    /\ db = [t \in Tickets |-> NoRow]
    /\ cfg \in {c \in Configs :
                  /\ c.trailing_distance = 1 /\ c.tp1_distance = 1
                  /\ c.min_equity = 0 /\ c.max_daily_loss = 0 /\ ~c.telegram}
    /\ reload = NoReload

NextConfig ==
    \/ run_async
    \/ _reconcile_state
    \/ LoopTop
    \/ check_risk_limits
    \/ SymbolTick
    \/ update_trailing_stops
    \/ check_partial_close
    \/ PlainSignal
    \/ Sleep
    \/ update_config
    \/ UpdateField

SpecConfig == InitConfig /\ [][NextConfig]_vars

\* -------- the loop with exceptions inside an iteration and stop requests
\* of other threads, on one position
InitLoop ==
    /\ EngineInit
    /\ positions \in OnePosition
    /\ tick = [s \in Symbols |-> [bid |-> 2, ask |-> 2]]
    /\ pcDeals = [t \in Tickets |-> 0]
    /\ connected = TRUE
    /\ db = [t \in Tickets |-> NoRow]
    /\ cfg \in {c \in Configs :
                  /\ c.trailing_enabled /\ c.partial_close_enabled
                  /\ c.trailing_distance = 1 /\ c.tp1_distance = 1
                  /\ c.min_equity = 0 /\ ~c.telegram}
    /\ reload = NoReload

NextLoop ==
    \/ run_async
    \/ _reconcile_state
    \/ LoopTop
    \/ check_risk_limits
    \/ SymbolTick
    \/ update_trailing_stops
    \/ check_partial_close
    \/ PartialCloseVisit
    \/ PartialCloseBreakEven
    \/ PartialCloseMark
    \/ PlainSignal
    \/ Sleep
    \/ LoopError
    \/ stop
    \/ run
    \/ PriceMove

SpecLoop == InitLoop /\ [][NextLoop]_vars

\* -------- entries: BUY and SELL signals on flat and positioned symbols
InitEntry ==
    /\ EngineInit
    /\ positions \in OnePosition
    /\ \E tk \in {v \in TickValues : v.bid = 2} : tick = [s \in Symbols |-> tk]
    /\ pcDeals = [t \in Tickets |-> 0]
    /\ connected = TRUE
    /\ db = [t \in Tickets |-> NoRow]
    /\ cfg \in EntryConfigs
    /\ reload = NoReload

NextEntry ==
    \/ run_async
    \/ _reconcile_state
    \/ LoopTop
    \/ check_risk_limits
    \/ SymbolTick
    \/ update_trailing_stops
    \/ check_partial_close
    \/ EntrySignal
    \/ PlainSignal
    \/ Sleep

SpecEntry == InitEntry /\ [][NextEntry]_vars

\* every step of run_async that is enabled is eventually taken: every broker
\* call returns
LoopFairness ==
    /\ WF_vars(run_async)
    /\ WF_vars(_reconcile_state)
    /\ WF_vars(LoopTop)
    /\ WF_vars(check_risk_limits)
    /\ WF_vars(SymbolTick)
    /\ WF_vars(update_trailing_stops)
    /\ WF_vars(check_partial_close)
    /\ WF_vars(PartialCloseVisit)
    /\ WF_vars(PartialCloseBreakEven)
    /\ WF_vars(PartialCloseMark)
    /\ WF_vars(PlainSignal)
    /\ WF_vars(Sleep)

SpecLoopFair == InitLoop /\ [][NextLoop]_vars /\ LoopFairness

\* ------------------------------------------------------------------ claims

\* C1: across engine cycles, restarts at any point and Reconciler runs, the
\* engine issues at most one successful partial-close broker call per ticket,
\* i.e. the broker's history never holds two "Partial Close" deals of a ticket.
C1_AtMostOnePartialClose == \A t \in Tickets : pcDeals[t] <= 1

\* C2: over all engine operations on an open position, once a stop is set it
\* never decreases for a long position and never increases for a short one.
C2_StopNeverWorsens ==
    [][\A t \in Tickets :
          (positions[t].open /\ positions'[t].open /\ positions[t].sl # 0)
             => IF PosType(t) = "BUY"
                THEN positions'[t].sl >= positions[t].sl
                ELSE positions'[t].sl <= positions[t].sl]_vars

\* C3: every stop modification update_trailing_stops sends carries a stop
\* strictly above the position's current non-zero stop for a long (strictly
\* below for a short), so the call never lowers a long's stop nor raises a
\* short's.
C3_TrailingStrictlyImproves ==
    [][pc = "trailing" =>
          /\ \A m \in sent' :
                m.old = 0 \/ Improves(PosType(m.ticket), m.new, m.old)
          /\ \A t \in Tickets :
                positions[t].sl # 0 =>
                   \/ positions'[t].sl = positions[t].sl
                   \/ Improves(PosType(t), positions'[t].sl, positions[t].sl)]_vars

\* C3 witness: a trailing modification of an already set stop was accepted
C3_Witness ==
    \E m \in sent :
        /\ m.by = "trailing"
        /\ m.old # 0
        /\ positions[m.ticket].sl = m.new
        /\ m.new # m.old


Halted == risk.verdict \in {"EQUITY", "DAILY_LOSS"}

\* C4: with max-daily-loss X > 0 and a daily P/L below -X, check_risk_limits
\* returns halt and every position open at that moment, on every symbol,
\* receives exactly one close call, whatever the other close calls answer.
C4_DailyLossClosesEveryPosition ==
    (/\ risk.verdict # "NONE"
     /\ cfg.max_daily_loss > 0
     /\ risk.pnl < 0 - cfg.max_daily_loss)
        => /\ Halted
           /\ \A t \in risk.open : risk.calls[t] = 1

\* C5: check_risk_limits returns halt if and only if (the min-equity floor is
\* nonzero and the equity account_info() reports is below it) or (max-daily-loss
\* is nonzero and the daily P/L is below its negative); at the exact boundaries
\* and with both limits at 0 it returns continue, and continue closes nothing.
C5_HaltIffBreach ==
    risk.verdict # "NONE" =>
        /\ Halted <=>
              \/ /\ cfg.min_equity # 0
                 /\ risk.account # NoAccount
                 /\ risk.account < cfg.min_equity
              \/ /\ cfg.max_daily_loss # 0
                 /\ risk.pnl < 0 - cfg.max_daily_loss
        /\ ~Halted => risk.calls = NoCalls /\ OpenTickets = risk.open

\* C5 witness: the equity sits exactly on a nonzero floor and the daily loss
\* alone halts
C5_Witness ==
    /\ risk.verdict = "DAILY_LOSS"
    /\ cfg.min_equity > 0
    /\ risk.account = cfg.min_equity

\* C6: when the risk check signals halt, the running flag is false and the loop
\* has been left in that same cycle: none of the per-symbol steps of that run
\* is ever taken again.
C6_HaltLeavesLoop == Halted => (pc = "exit" /\ ~running)

\* C6 witness: a halted run with a position still open at the broker
C6_Witness == Halted /\ pc = "exit" /\ OpenTickets # {}

\* C7: whenever check_risk_limits detects a breach it invokes send_alert at
\* least once, besides closing all positions and returning False.
C7_BreachSendsAlert == Halted => risk.alerts >= 1

\* C8: when _reconcile_state runs twice in a row with no change of the broker
\* state, the store or the engine in between, the second run performs no
\* store mutation (no close_trade, no save_trade) and adds no ticket to
\* partially_closed_tickets.
C8_ReconcileIdempotent ==
    recon.runs >= 2 =>
        /\ recon.closed = {}
        /\ recon.saved = {}
        /\ recon.restored = {}

\* a second run in a row over a broker that reports an open position and a
\* store that holds a closed row and a restored partial-close flag
C8_Witness ==
    /\ recon.runs >= 2
    /\ pc = "while"
    /\ get_open_positions # {}
    /\ \E t \in Tickets : db[t].status = "CLOSED"
    /\ partially_closed_tickets # {}

\* C9: when _reconcile_state has completed and the broker has not changed
\* since, the tickets of the rows flagged OPEN in the store are exactly the
\* tickets the broker reports open.
C9_StoreOpenEqualsBrokerOpen ==
    (recon.runs >= 1 /\ pc = "while") => get_active_trades = get_open_positions

\* a run that both closed a row and saved a row
C9_Witness ==
    /\ recon.runs = 1
    /\ pc = "while"
    /\ recon.closed # {}
    /\ recon.saved # {}

\* C10: at every moment at most one thread is inside a call into the broker
\* API, over the engine's loop and the public methods other threads invoke.
C10_OneBrokerCallInFlight == Cardinality(conc.inBroker) <= 1

\* C11: the configuration fields one cycle of the loop has read are all those
\* of the configuration before the update_config call or all those of the
\* configuration after it, also when update_config runs on another thread
\* during the cycle.
C11_CycleSeesOneConfig ==
    \E c \in {reload.old, reload.new} : \A r \in obs.seen : c[r[1]] = r[2]

\* C12: once the loop is entered, an exception raised by a step of an
\* iteration is caught and the loop goes on at "while self.running"; the loop
\* is left only by a RiskGuard halt or with the stop flag set.
C12_ExceptionNeverEndsLoop ==
    [][/\ (obs'.raised /\ ~obs.raised) => pc' = "while"
       /\ (pc \notin {"init", "reconcile", "exit"} /\ pc' = "exit")
             => \/ pc = "while" /\ ~running
                \/ pc = "risk" /\ risk'.verdict \in {"EQUITY", "DAILY_LOSS"}]_vars

\* an exception was caught and the loop is at its top, still running
C12_Witness == obs.raised /\ pc = "while" /\ running

\* C13: a stop request issued at any time after run() has been invoked is
\* never lost: the loop eventually exits (every broker call returning).
C13_StopNeverLost == obs.stop ~> (pc = "exit")

C16_SpreadRejectsIffAboveCeiling ==
    obs.entry.checked =>
        /\ ~obs.entry.result <=> (~obs.entry.data \/ obs.entry.spread > cfg.max_spread)
        /\ obs.admitted => obs.entry.result

\* C16 witness: a spread of exactly max_spread, not zero, was admitted
C16_Witness ==
    /\ obs.entry.checked /\ obs.entry.data
    /\ obs.entry.spread = cfg.max_spread /\ cfg.max_spread > 0
    /\ obs.entry.result

\* C17: under the risk-percentage policy with a stop at non-zero distance the
\* order volume is (equity * risk fraction) / (100 * distance), rounded to
\* hundredths of a lot and clamped to [0.01, 10.0].
C17_RiskVolumeFromEquity ==
    (/\ Len(obs.orders) = 1 /\ cfg.use_risk_based_sizing /\ obs.signal.sl # 0
     /\ obs.entry.dist > 0 /\ obs.entry.account.ok) =>
        obs.orders[1].volume \in
            {Clamp(v) : v \in Round2(obs.entry.account.equity * cfg.risk_percent,
                                      ContractSize * obs.entry.dist)}

StepKey(step) ==
    IF step[1] = "risk" THEN 0
    ELSE 3 * step[2] + (IF step[1] = "trailing" THEN 0
                        ELSE IF step[1] = "partial" THEN 1 ELSE 2)

\* C19: in every cycle the risk check runs first, and the symbols are taken
\* one at a time in list order: trailing-stop update, partial-close check and
\* signal handling of a symbol all run, in this order, before any step of
\* the next symbol.
C19_RiskFirstThenSymbolsInOrder ==
    /\ obs.steps # <<>> => obs.steps[1] = <<"risk", 0>>
    /\ \A i, j \in 1..Len(obs.steps) :
          i < j => StepKey(obs.steps[i]) < StepKey(obs.steps[j])
    /\ \A i \in 1..Len(obs.steps) :
          obs.steps[i][1] \in {"partial", "signal"} =>
             i > 1 /\ StepKey(obs.steps[i - 1]) = StepKey(obs.steps[i]) - 1
    /\ pc \in {"symbol", "trailing", "partial", "bar"} =>
          \A i \in 1..Len(obs.steps) : obs.steps[i][2] <= CurrentSymbol
    /\ queue # <<>> => obs.steps[Len(obs.steps)] = <<"partial", CurrentSymbol>>

\* C19 witness: a cycle ran the risk check and the three steps of every symbol
C19_Witness == Len(obs.steps) = 1 + 3 * NumSymbols /\ pc = "sleep"

\* C20: _reconcile_state runs only after connect_mt5 succeeded and returns
\* before the loop starts: until then no order, stop modification or close
\* is issued; when the connection fails neither _reconcile_state nor an
\* iteration runs.
C20_ReconcileAfterConnectBeforeLoop ==
    [][/\ pc' \notin {"init", "reconcile", "exit"} => obs'.startup = "reconciled"
       /\ (obs'.startup = "reconciled" /\ obs.startup # "reconciled")
             => (obs.startup = "connected" /\ connected /\ pc = "reconcile")
       /\ obs'.startup = "failed"
             => (pc' = "exit" /\ db' = db /\ obs'.steps = <<>>)
       /\ obs'.startup # "reconciled"
             => /\ positions' = positions /\ pcDeals' = pcDeals
                /\ sent' = {} /\ obs'.orders = <<>> /\ obs'.steps = <<>>]_vars

\* C20 witness: the loop is at its first symbol after a reconcile that saved
\* a position of the broker
C20_Witness ==
    /\ obs.startup = "reconciled" /\ pc = "trailing"
    /\ \E t \in OpenTickets : db[t].status = "OPEN"

\* the direction of a position a signal is opposite to
Against(signal) == IF signal = "BUY" THEN -1 ELSE 1

\* the bar's signal is BUY or SELL and the position read reported a position
\* of the other direction
OppositeSignal ==
    /\ obs.signal.signal \in {"BUY", "SELL"}
    /\ obs.entry.pos_dir = Against(obs.signal.signal)

\* C21: the spread and news filters gate only the opening of a position: a
\* BUY/SELL signal opposite to an open position closes the symbol's positions
\* whatever the spread ceiling or the news filter says.
C21_ReversalIgnoresFilters ==
    (OppositeSignal /\ obs.entry.data /\ ~obs.entry.closeRaised) =>
        obs.entry.closes # {}

C28_OrderOnlyWhenFlat ==
    /\ Len(obs.orders) <= 1
    /\ obs.orders # <<>> => (obs.flat /\ obs.entry.pos_dir = 0)
    /\ (/\ obs.signal.signal \in {"BUY", "SELL"}
        /\ obs.entry.pos_dir = 0 - Against(obs.signal.signal))
          => (obs.orders = <<>> /\ obs.entry.closes = {} /\ sent = {})

\* C28 witness: an admitted signal in the direction of the open position
C28_Witness ==
    /\ obs.signal.signal \in {"BUY", "SELL"}
    /\ obs.admitted
    /\ obs.entry.pos_dir = 0 - Against(obs.signal.signal)
    /\ obs.orders = <<>>
    /\ OpenTickets # {}

\* C22: an exception raised while a symbol is processed does not keep the
\* symbols after it in the list from being processed in the same cycle.
C22_ExceptionSparesLaterSymbols ==
    (pc = "while" /\ obs.raisedAt >= 1) =>
        \A s \in Symbols :
           s > obs.raisedAt => \E i \in 1..Len(obs.steps) : obs.steps[i][2] = s

\* C29: when the agent raises on a new bar the bar counts as a HOLD: no
\* order, close or stop modification is sent for the symbol, and the cycle
\* goes on as after a HOLD, with the next symbol or the end of the cycle.
C29_AgentErrorIsHold ==
    [][(obs'.raisedBy = "predict" /\ pc = "bar") =>
          /\ sent' = {}
          /\ positions' = positions
          /\ IF symIdx < NumSymbols
             THEN pc' = "symbol" /\ symIdx' = symIdx + 1
             ELSE pc' = "sleep"]_vars

\* C23: _reconcile_state marks a row CLOSED only when the broker no longer
\* holds the ticket open, also when the position query fails or the terminal
\* is disconnected during the reconciliation.
C23_ReconcileClosesOnlyGoneTickets ==
    [][pc = "reconcile" =>
          \A t \in Tickets :
             (db[t].status = "OPEN" /\ db'[t].status = "CLOSED")
                => ~positions[t].open]_vars


\* the ticket of the _execute_partial_close whose outcome obs.partial holds
PartialTicket == obs.partial.ticket

\* C24: when the break-even stop move fails after a successful partial
\* close, the ticket is still marked partially closed, in memory and in
\* TradeStore, and an alert is raised for manual verification of the stop.
C24_FailedBreakEvenMarksAndAlerts ==
    (obs.partial.close = "done" /\ obs.partial.be = "failed" /\ obs.partial.marked)
        => /\ PartialTicket \in partially_closed_tickets
           /\ db[PartialTicket].status = "OPEN" => db[PartialTicket].partial_close_done
           /\ obs.partial.alerts # {}

\* a step in which the partial-close order of a ticket was sent and not done
PartialCloseFails ==
    /\ obs'.partial # obs.partial
    /\ obs'.partial.close = "failed"

\* C25: when the partial-close order fails, nothing is marked (neither the
\* in-memory set nor TradeStore changes) and no stop move is attempted, so
\* the ticket stays eligible and is retried on a later cycle.
C25_FailedPartialCloseMarksNothing ==
    [][PartialCloseFails =>
          /\ partially_closed_tickets' = partially_closed_tickets
          /\ obs'.partial.ticket \notin partially_closed_tickets'
          /\ db' = db
          /\ positions' = positions
          /\ sent' = {}
          /\ pc' = "pc_visit"]_vars

\* a ticket whose partial-close order failed on an earlier cycle has been
\* tried again, and this time the order was done
C25_Witness ==
    /\ obs.partial.close = "done"
    /\ obs.partial.ticket \in obs.failed

\* C26: the stop stored in TradeStore for a ticket changes only after the
\* broker accepted a modification to that same value, so the stored stop of
\* a ticket the engine has modified equals the broker's stop.
C26_StoredStopFollowsBroker ==
    [][\A t \in Tickets :
          (db[t].status = "OPEN" /\ db'[t].status = "OPEN" /\ db'[t].sl # db[t].sl)
              => (positions'[t].open /\ positions'[t].sl = db'[t].sl)]_vars

\* C30: update_config is all-or-nothing: when a supplied value is invalid and
\* the call returns False no field has been changed, and when it returns True
\* every supplied field has been applied.
C30_UpdateConfigAllOrNothing ==
    /\ reload.result = "False" =>
          \A i \in 1..Len(ReloadFields) : cfg[ReloadFields[i]] = reload.old[ReloadFields[i]]
    /\ reload.result = "True" =>
          \A i \in 1..Len(ReloadFields) : cfg[ReloadFields[i]] = reload.new[ReloadFields[i]]

\* the loop found the terminal disconnected and connect_mt5 succeeded
Reconnects ==
    /\ pc = "while"
    /\ running
    /\ ~connected
    /\ connected'

\* C31: after the loop detects a broker disconnect and a reconnect succeeds,
\* the Reconciler is run again before per-symbol processing resumes.
C31_ReconnectReconciles ==
    [][Reconnects => pc' = "reconcile"]_vars

\* the tickets whose TradeStore record carries partial_close_done
MarkedInStore == {t \in Tickets : db[t].status # "NONE" /\ db[t].partial_close_done}

\* C32: after the Reconciler completes, every ticket that is open at the
\* broker and whose TradeStore record carries the saved partial-close marker
\* is in the in-memory partially-closed set.
C32_ReconcileRestoresMarker ==
    (recon.runs >= 1 /\ pc = "while") =>
        \A t \in OpenTickets \cap MarkedInStore : t \in partially_closed_tickets

\* the candidate stop computed from the running peak or trough
ExtremeCandidate(t) ==
    IF PosType(t) = "BUY" THEN RunningExtreme(t) - cfg.trailing_distance
    ELSE RunningExtreme(t) + cfg.trailing_distance

\* C33: the trailing-stop candidate is computed from the running peak price
\* since the position opened (trough for shorts), not from the instantaneous
\* price: after a retreat the candidate of a long remains peak minus distance.
C33_CandidateFromRunningPeak ==
    [][pc = "trailing" =>
          \A r \in sent' : r.by = "trailing" => r.new = ExtremeCandidate(r.ticket)]_vars

\* C34: sending an alert is fire-and-forget: no engine thread waits for the
\* notifier's send to finish; a send never runs while the broker lock is held
\* and never delays the loop's next broker call.
C34_AlertIsFireAndForget ==
    /\ "engine" \notin conc.sending
    /\ \A th \in conc.sending : conc.mt5_lock # th

\* thread a waits for a lock that thread b holds
WaitsFor(a, b) ==
    \/ conc.wait[a] = "mt5" /\ conc.mt5_lock = b
    \/ conc.wait[a] = "db" /\ conc.db_lock = b

\* C35: no interleaving of the loop's worker calls with other threads' calls
\* deadlocks: the broker lock is never requested by the thread that holds it,
\* the broker lock is never requested by a thread that holds the TradeStore
\* lock, every lock is released when its method has returned or raised, and
\* no threads wait for each other.
C35_NoDeadlock ==
    /\ \A th \in Threads : ~WaitsFor(th, th)
    /\ \A th \in Threads : conc.wait[th] = "mt5" => conc.db_lock # th
    /\ \A th \in Threads :
          conc.call[th] = "idle" => (conc.mt5_lock # th /\ conc.db_lock # th)
    /\ \A a, b \in Threads : ~(WaitsFor(a, b) /\ WaitsFor(b, a))

\* one thread, inside _modify_position_sl under the broker lock, waits for
\* the TradeStore lock, which the other thread holds
C35_Witness ==
    \E a, b \in Threads :
       /\ a # b
       /\ conc.mt5_lock = a
       /\ conc.wait[a] = "db"
       /\ conc.db_lock = b
       /\ conc.inner[a] = "_modify_position_sl"

\* C36: if evaluating the risk limits raises (the account or the daily P/L
\* query fails), check_risk_limits returns continue: the engine does not halt
\* and closes no position in that cycle.
C36_RiskErrorContinues ==
    [][(pc = "risk" /\ risk'.verdict = "ERROR") =>
          /\ pc' = "symbol"
          /\ running' = running
          /\ positions' = positions
          /\ db' = db
          /\ risk'.calls = NoCalls]_vars

\* the daily P/L query raised while positions were open, and the cycle goes on
C36_Witness ==
    /\ risk.verdict = "ERROR"
    /\ pc = "symbol"
    /\ running
    /\ OpenTickets # {}
    /\ cfg.max_daily_loss > 0

\* the bar step of this transition requested a signal
RequestsSignal == Len(obs'.requests) > Len(obs.requests)

\* C37: for each symbol a signal is requested at most once per distinct bar
\* time: the bar is recorded as seen before the signal is requested, so a bar
\* whose processing raised or whose candle history was empty is not retried,
\* and no signal is requested in a cycle where the bar time is unchanged.
C37_OneRequestPerBar ==
    [][/\ RequestsSignal =>
            /\ obs.barTime[CurrentSymbol] # obs.last_bar_times[CurrentSymbol]
            /\ obs'.last_bar_times[CurrentSymbol] = obs.barTime[CurrentSymbol]
            /\ \A i \in 1..Len(obs.requests) :
                  obs.requests[i] # <<CurrentSymbol, obs.barTime[CurrentSymbol]>>
            /\ <<CurrentSymbol, obs.barTime[CurrentSymbol]>> \notin obs.skipped
       /\ (pc = "bar" /\ obs'.skipped # obs.skipped) =>
            obs'.last_bar_times[CurrentSymbol] = obs.barTime[CurrentSymbol]]_vars

\* a bar has been passed over (its history was empty or get_history raised),
\* and two bars of one symbol have got their signal requests
C37_Witness ==
    /\ obs.skipped # {}
    /\ obs.raisedBy = "none"
    /\ \E i, j \in 1..Len(obs.requests) :
          /\ i < j
          /\ obs.requests[i][1] = obs.requests[j][1]
          /\ obs.requests[i][2] < obs.requests[j][2]
    /\ pc = "sleep"

\* the records close_all_positions has flagged CLOSED with the profit 0.0
ClosedWithoutProfit ==
    {t \in Tickets : db[t].status = "CLOSED" /\ db[t].profit = "0.0"}

\* C38: after close_all_positions has closed a ticket and recorded it CLOSED
\* with profit 0.0, a later Reconciler run updates that record's profit to
\* the realised value.
C38_ReconcileUpdatesProfit ==
    \A t \in Tickets :
        (t \in ClosedWithoutProfit) ~> (db[t].profit = "realised")

=============================================================================
